---- MODULE Spec2Model ----
(***************************************************************************)
(* Model of azure.ai.ml ForecastingJob                                     *)
(* (sdk/ml/azure-ai-ml/azure/ai/ml/entities/_job/automl/tabular/           *)
(* forecasting_job.py): the primary_metric property, the forecasting       *)
(* settings partial update, the training override, the wire round trip,    *)
(* the declarative document and equality.                                  *)
(*                                                                         *)
(* Python values are encoded as follows.  An Optional[T] is a sequence of  *)
(* length at most one: None is << >> and a value v is <<v>>.  A Python str *)
(* is a sequence of one-character strings.  A value handed to the          *)
(* primary_metric setter is a record [kind, chars]: kind "None", kind      *)
(* "str" (chars is the text) or kind "enum" (chars is the member name).    *)
(***************************************************************************)
EXTENDS Naturals, Integers, Sequences, FiniteSets, TLC

VARIABLES job, other, last, steps, wire, restored, eq_result, ne_result,
          doc, loaded

vars == <<job, other, last, steps, wire, restored, eq_result, ne_result, doc, loaded>>

(***************************************************************************)
(* Bounds of the exploration.                                              *)
(***************************************************************************)
MaxSteps == 2
MaxArgs == 1
MaxVal == 2
MaxDrop == 1

None == << >>

Some(v) == <<v>>

IsNone(o) == o = << >>

Val(o) == o[1]

(***************************************************************************)
(* Characters and Python's str.lower / str.upper.                          *)
(***************************************************************************)
LowerChars ==
  <<"a", "b", "c", "d", "e", "f", "g", "h", "i", "j", "k", "l", "m",
    "n", "o", "p", "q", "r", "s", "t", "u", "v", "w", "x", "y", "z">>

UpperChars ==
  <<"A", "B", "C", "D", "E", "F", "G", "H", "I", "J", "K", "L", "M",
    "N", "O", "P", "Q", "R", "S", "T", "U", "V", "W", "X", "Y", "Z">>

DigitChars == {"0", "1", "2", "3", "4", "5", "6", "7", "8", "9"}

LowerSet == {LowerChars[i] : i \in 1..26}

UpperSet == {UpperChars[i] : i \in 1..26}

ToLower == [c \in UpperSet |-> LowerChars[CHOOSE i \in 1..26 : UpperChars[i] = c]]

ToUpper == [c \in LowerSet |-> UpperChars[CHOOSE i \in 1..26 : LowerChars[i] = c]]

IsLower(c) == c \in LowerSet

IsUpper(c) == c \in UpperSet

IsDigit(c) == c \in DigitChars

IsSpace(c) == c = " "

LowerChar(c) == IF IsUpper(c) THEN ToLower[c] ELSE c

UpperChar(c) == IF IsLower(c) THEN ToUpper[c] ELSE c

StrLower(s) == [i \in 1..Len(s) |-> LowerChar(s[i])]

StrUpper(s) == [i \in 1..Len(s) |-> UpperChar(s[i])]

(***************************************************************************)
(* camel_to_snake: re.sub("(.)([A-Z][a-z]+)", r"\1_\2", text), then        *)
(* re.sub("([a-z0-9])([A-Z])", r"\1_\2", text), then lower().  Each        *)
(* substitution scans left to right over non-overlapping matches.          *)
(***************************************************************************)
RECURSIVE LowerRunEnd(_, _)
LowerRunEnd(s, i) ==
  IF i < Len(s) /\ IsLower(s[i + 1]) THEN LowerRunEnd(s, i + 1) ELSE i

RECURSIVE SubWordBoundary(_)
SubWordBoundary(s) ==
  IF Len(s) = 0 THEN << >>
  ELSE IF Len(s) >= 3 /\ IsUpper(s[2]) /\ IsLower(s[3])
       THEN LET n == LowerRunEnd(s, 3)
            IN  <<s[1], "_">> \o SubSeq(s, 2, n)
                  \o SubWordBoundary(SubSeq(s, n + 1, Len(s)))
       ELSE <<s[1]>> \o SubWordBoundary(Tail(s))

RECURSIVE SubCaseBoundary(_)
SubCaseBoundary(s) ==
  IF Len(s) = 0 THEN << >>
  ELSE IF Len(s) >= 2 /\ (IsLower(s[1]) \/ IsDigit(s[1])) /\ IsUpper(s[2])
       THEN <<s[1], "_", s[2]>> \o SubCaseBoundary(SubSeq(s, 3, Len(s)))
       ELSE <<s[1]>> \o SubCaseBoundary(Tail(s))

camel_to_snake(text) == StrLower(SubCaseBoundary(SubWordBoundary(text)))

(***************************************************************************)
(* is_data_binding_expression(value, ["parent"]): the whole string is      *)
(* "${{", optional blanks, "parent" followed by non-blank characters,      *)
(* optional blanks, "}}".                                                  *)
(***************************************************************************)
BindingOpen == <<"$", "{", "{">>

BindingClose == <<"}", "}">>

ParentPrefix == <<"p", "a", "r", "e", "n", "t">>

RECURSIVE LStrip(_)
LStrip(s) == IF Len(s) > 0 /\ IsSpace(s[1]) THEN LStrip(Tail(s)) ELSE s

RECURSIVE RStrip(_)
RStrip(s) ==
  IF Len(s) > 0 /\ IsSpace(s[Len(s)]) THEN RStrip(SubSeq(s, 1, Len(s) - 1)) ELSE s

StartsWith(s, p) == Len(s) >= Len(p) /\ SubSeq(s, 1, Len(p)) = p

EndsWith(s, p) == Len(s) >= Len(p) /\ SubSeq(s, Len(s) - Len(p) + 1, Len(s)) = p

is_data_binding_expression(s) ==
  /\ Len(s) >= Len(BindingOpen) + Len(BindingClose)
  /\ StartsWith(s, BindingOpen)
  /\ EndsWith(s, BindingClose)
  /\ LET inner == RStrip(LStrip(SubSeq(s, Len(BindingOpen) + 1,
                                       Len(s) - Len(BindingClose))))
     IN  /\ StartsWith(inner, ParentPrefix)
         /\ \A i \in 1..Len(inner) : ~IsSpace(inner[i])

(***************************************************************************)
(* ForecastingPrimaryMetrics: member names are upper snake case, member    *)
(* values are camel case.  A member is identified by its words.            *)
(***************************************************************************)
W_normalized == <<"n", "o", "r", "m", "a", "l", "i", "z", "e", "d">>

W_root == <<"r", "o", "o", "t">>

W_mean == <<"m", "e", "a", "n">>

W_squared == <<"s", "q", "u", "a", "r", "e", "d">>

W_absolute == <<"a", "b", "s", "o", "l", "u", "t", "e">>

W_error == <<"e", "r", "r", "o", "r">>

W_spearman == <<"s", "p", "e", "a", "r", "m", "a", "n">>

W_correlation == <<"c", "o", "r", "r", "e", "l", "a", "t", "i", "o", "n">>

W_r2 == <<"r", "2">>

W_score == <<"s", "c", "o", "r", "e">>

ForecastingPrimaryMetrics ==
  { <<W_spearman, W_correlation>>,
    <<W_normalized, W_root, W_mean, W_squared, W_error>>,
    <<W_r2, W_score>>,
    <<W_normalized, W_mean, W_absolute, W_error>> }

Capitalized(w) == [i \in 1..Len(w) |-> IF i = 1 THEN UpperChar(w[i]) ELSE w[i]]

RECURSIVE Join(_, _)
Join(ws, sep) ==
  IF Len(ws) = 0 THEN << >>
  ELSE IF Len(ws) = 1 THEN ws[1]
  ELSE ws[1] \o sep \o Join(Tail(ws), sep)

MemberName(m) == StrUpper(Join(m, <<"_">>))

MemberValue(m) == Join([i \in 1..Len(m) |-> Capitalized(m[i])], << >>)

MemberNames == {MemberName(m) : m \in ForecastingPrimaryMetrics}

MemberOf(name) == CHOOSE m \in ForecastingPrimaryMetrics : MemberName(m) = name

(***************************************************************************)
(* Values handed to and stored by the primary_metric property.             *)
(***************************************************************************)
NoneValue == [kind |-> "None", chars |-> << >>]

StrValue(s) == [kind |-> "str", chars |-> s]

EnumValue(name) == [kind |-> "enum", chars |-> name]

_DEFAULT_PRIMARY_METRIC ==
  EnumValue(MemberName(<<W_normalized, W_root, W_mean, W_squared, W_error>>))

\* str(value)
Str(value) ==
  IF value.kind = "None" THEN <<"N", "o", "n", "e">>
  ELSE IF value.kind = "enum"
       THEN <<"F", "o", "r", "e", "c", "a", "s", "t", "i", "n", "g",
              "P", "r", "i", "m", "a", "r", "y",
              "M", "e", "t", "r", "i", "c", "s", ".">> \o value.chars
       ELSE value.chars

\* the text the regular expressions of camel_to_snake see: a str, or the
\* value of a str-valued enumeration member
Text(value) ==
  IF value.kind = "enum" THEN MemberValue(MemberOf(value.chars)) ELSE value.chars

\* bool(value)
Truthy(value) == value.kind # "None" /\ ~(value.kind = "str" /\ Len(value.chars) = 0)

NoError == [type |-> "", args |-> << >>]

KeyError(key) == [type |-> "KeyError", args |-> <<key>>]

\* ForecastingPrimaryMetrics[key]
EnumGetItem(key) ==
  IF key \in MemberNames
  THEN [raised |-> FALSE, error |-> NoError, value |-> EnumValue(key)]
  ELSE [raised |-> TRUE, error |-> KeyError(key), value |-> NoneValue]

\* mutant: the name is upper-cased without the camel-to-snake conversion
NormalizedKeyNoSnake(value) == StrUpper(Text(value))

\* camel_to_snake(value).upper()
NormalizedKey(value) == StrUpper(camel_to_snake(Text(value)))

\* mutant: None is stored as given instead of resolving to the default
SetterStoresNone(j, value) ==
  IF is_data_binding_expression(Str(value)) \/ value.kind = "None"
  THEN [raised |-> FALSE, error |-> NoError,
        job |-> [j EXCEPT !.primary_metric = value]]
  ELSE LET r == EnumGetItem(NormalizedKey(value))
       IN  IF r.raised
           THEN [raised |-> TRUE, error |-> r.error, job |-> j]
           ELSE [raised |-> FALSE, error |-> NoError,
                 job |-> [j EXCEPT !.primary_metric = r.value]]

\* mutant: a failed lookup falls back to the default instead of raising
SetterFallsBack(j, value) ==
  IF is_data_binding_expression(Str(value))
  THEN [raised |-> FALSE, error |-> NoError,
        job |-> [j EXCEPT !.primary_metric = value]]
  ELSE IF value.kind = "None"
  THEN [raised |-> FALSE, error |-> NoError,
        job |-> [j EXCEPT !.primary_metric = _DEFAULT_PRIMARY_METRIC]]
  ELSE LET r == EnumGetItem(NormalizedKey(value))
       IN  [raised |-> FALSE, error |-> NoError,
            job |-> [j EXCEPT !.primary_metric =
                       IF r.raised THEN _DEFAULT_PRIMARY_METRIC ELSE r.value]]

\* mutant: placeholders are looked up like any other string
SetterNoBindingCheck(j, value) ==
  IF value.kind = "None"
  THEN [raised |-> FALSE, error |-> NoError,
        job |-> [j EXCEPT !.primary_metric = _DEFAULT_PRIMARY_METRIC]]
  ELSE LET r == EnumGetItem(NormalizedKey(value))
       IN  IF r.raised
           THEN [raised |-> TRUE, error |-> r.error, job |-> j]
           ELSE [raised |-> FALSE, error |-> NoError,
                 job |-> [j EXCEPT !.primary_metric = r.value]]

\* mutant: the stored value is reset before the lookup is attempted
SetterResetsBeforeLookup(j, value) ==
  IF is_data_binding_expression(Str(value))
  THEN [raised |-> FALSE, error |-> NoError,
        job |-> [j EXCEPT !.primary_metric = value]]
  ELSE IF value.kind = "None"
  THEN [raised |-> FALSE, error |-> NoError,
        job |-> [j EXCEPT !.primary_metric = _DEFAULT_PRIMARY_METRIC]]
  ELSE LET r == EnumGetItem(NormalizedKey(value))
       IN  IF r.raised
           THEN [raised |-> TRUE, error |-> r.error,
                 job |-> [j EXCEPT !.primary_metric = _DEFAULT_PRIMARY_METRIC]]
           ELSE [raised |-> FALSE, error |-> NoError,
                 job |-> [j EXCEPT !.primary_metric = r.value]]

\* the primary_metric setter applied to job j
primary_metric_setter(j, value) ==
  IF is_data_binding_expression(Str(value))
  THEN [raised |-> FALSE, error |-> NoError,
        job |-> [j EXCEPT !.primary_metric = value]]
  ELSE IF value.kind = "None"
  THEN [raised |-> FALSE, error |-> NoError,
        job |-> [j EXCEPT !.primary_metric = _DEFAULT_PRIMARY_METRIC]]
  ELSE LET r == EnumGetItem(NormalizedKey(value))
       IN  IF r.raised
           THEN [raised |-> TRUE, error |-> r.error, job |-> j]
           ELSE [raised |-> FALSE, error |-> NoError,
                 job |-> [j EXCEPT !.primary_metric = r.value]]

(***************************************************************************)
(* ForecastingSettings: the nested record of fourteen optional fields.     *)
(***************************************************************************)
FieldNames ==
  { "time_column_name", "forecast_horizon", "time_series_id_column_names",
    "target_lags", "feature_lags", "target_rolling_window_size",
    "country_or_region_for_holidays", "use_stl", "seasonality",
    "short_series_handling_config", "frequency", "target_aggregate_function",
    "cv_step_size", "features_unknown_at_forecast_time" }

\* ForecastingSettings(): every field at its default
ForecastingSettings == [f \in FieldNames |-> None]

\* mutant: every call starts from a fresh settings record
SettingsAlwaysNew(j) == ForecastingSettings

\* self._forecasting_settings or ForecastingSettings()
SettingsOrNew(j) ==
  IF IsNone(j.forecasting_settings) THEN ForecastingSettings
  ELSE Val(j.forecasting_settings)

\* mutant: an absent argument overwrites the stored value
KeepClobbers(arg, current) == arg

\* mutant: a supplied value is refused once the field holds one
KeepFirst(arg, current) == IF ~IsNone(current) THEN current ELSE arg

\* one assignment of set_forecast_settings
Keep(arg, current) == IF ~IsNone(arg) THEN arg ELSE current

set_forecast_settings(j, a) ==
  LET s == SettingsOrNew(j)
  IN  [j EXCEPT !.forecasting_settings = Some(
        [ country_or_region_for_holidays |->
            Keep(a.country_or_region_for_holidays, s.country_or_region_for_holidays),
          cv_step_size |-> Keep(a.cv_step_size, s.cv_step_size),
          forecast_horizon |-> Keep(a.forecast_horizon, s.forecast_horizon),
          target_lags |-> Keep(a.target_lags, s.target_lags),
          target_rolling_window_size |->
            Keep(a.target_rolling_window_size, s.target_rolling_window_size),
          frequency |-> Keep(a.frequency, s.frequency),
          feature_lags |-> Keep(a.feature_lags, s.feature_lags),
          seasonality |-> Keep(a.seasonality, s.seasonality),
          use_stl |-> Keep(a.use_stl, s.use_stl),
          short_series_handling_config |->
            Keep(a.short_series_handling_config, s.short_series_handling_config),
          target_aggregate_function |->
            Keep(a.target_aggregate_function, s.target_aggregate_function),
          time_column_name |-> Keep(a.time_column_name, s.time_column_name),
          time_series_id_column_names |->
            Keep(a.time_series_id_column_names, s.time_series_id_column_names),
          features_unknown_at_forecast_time |->
            Keep(a.features_unknown_at_forecast_time,
                 s.features_unknown_at_forecast_time) ])]

(***************************************************************************)
(* Training settings: the stack-ensemble flag and one other toggle.        *)
(***************************************************************************)
OptBool == {None, Some(TRUE), Some(FALSE)}

\* ForecastingTrainingSettings(): d is the base class's default for the flag
ForecastingTrainingSettings(d) ==
  [enable_stack_ensemble |-> d, enable_vote_ensemble |-> None]

\* the training property: self._training or ForecastingTrainingSettings()
training(j, d) ==
  IF IsNone(j.training) THEN ForecastingTrainingSettings(d) ELSE Val(j.training)

\* AutoMLTabular.set_training: store the record the getter returns, then
\* overwrite each toggle for which a value was passed
super_set_training(j, t, d) ==
  LET cur == training(j, d)
  IN  [j EXCEPT !.training = Some(
        [ enable_stack_ensemble |->
            Keep(t.enable_stack_ensemble, cur.enable_stack_ensemble),
          enable_vote_ensemble |->
            Keep(t.enable_vote_ensemble, cur.enable_vote_ensemble) ])]

\* mutant: the flag is forced off only while it has never been set
OverrideOnlyWhenUnset(b, t) ==
  IF IsNone(t.enable_stack_ensemble)
  THEN IF ~IsNone(b.training) /\ IsNone(Val(b.training).enable_stack_ensemble)
       THEN [b EXCEPT !.training =
               Some([Val(b.training) EXCEPT !.enable_stack_ensemble = Some(FALSE)])]
       ELSE b
  ELSE b

\* mutant: the flag is forced off whether or not the caller passed it
OverrideAlways(b, t) ==
  IF ~IsNone(b.training)
  THEN [b EXCEPT !.training =
          Some([Val(b.training) EXCEPT !.enable_stack_ensemble = Some(FALSE)])]
  ELSE b

\* the override applied after the delegation
StackEnsembleOverride(b, t) ==
  IF IsNone(t.enable_stack_ensemble)
  THEN IF ~IsNone(b.training)
       THEN [b EXCEPT !.training =
               Some([Val(b.training) EXCEPT !.enable_stack_ensemble = Some(FALSE)])]
       ELSE b
  ELSE b

set_training(j, t, d) == StackEnsembleOverride(super_set_training(j, t, d), t)

\* reading job.training: the returned record and the job afterwards
training_getter(j, d) == [value |-> training(j, d), job |-> j]

\* mutant: the assigned record is stored
TrainingSetterStores(j, value) == [j EXCEPT !.training = Some(value)]

\* job.training = value: the setter's body is "..."
training_setter(j, value) == j

(***************************************************************************)
(* The inherited attributes of the job: the target column and the optional *)
(* featurization, limits and identity records.                             *)
(***************************************************************************)
TabularFeaturizationSettings == [entity |-> "TabularFeaturizationSettings"]

TabularLimitSettings == [entity |-> "TabularLimitSettings"]

IdentityConfiguration == [entity |-> "IdentityConfiguration"]

\* the data fields that set_data assigns
DataKeys ==
  { "training_data", "target_column_name", "weight_column_name",
    "validation_data", "validation_data_size", "cv_split_column_names",
    "n_cross_validations", "test_data", "test_data_size" }

OtherDataKeys == DataKeys \ {"target_column_name"}

NoData == [k \in OtherDataKeys |-> None]

Base(tcn, feat, lim, ident) ==
  [target_column_name |-> tcn, data |-> NoData, featurization |-> feat,
   limits |-> lim, identity |-> ident]

(***************************************************************************)
(* Construction.                                                           *)
(***************************************************************************)
\* mutant: the constructor creates the settings record eagerly
ForecastingJobEager(pm, fs, tr, base) ==
  primary_metric_setter(
    [primary_metric |-> NoneValue,
     forecasting_settings |-> IF IsNone(fs) THEN Some(ForecastingSettings) ELSE fs,
     training |-> tr, base |-> base],
    IF Truthy(pm) THEN pm ELSE _DEFAULT_PRIMARY_METRIC)

\* ForecastingJob(primary_metric=pm, forecasting_settings=fs, training=tr, ...)
ForecastingJob(pm, fs, tr, base) ==
  primary_metric_setter(
    [primary_metric |-> NoneValue, forecasting_settings |-> fs,
     training |-> tr, base |-> base],
    IF Truthy(pm) THEN pm ELSE _DEFAULT_PRIMARY_METRIC)

(***************************************************************************)
(* The wire representation.  RestForecasting carries the primary metric,   *)
(* the shared tabular fields and the converted nested records.             *)
(***************************************************************************)
\* ForecastingSettings._to_rest_object / _from_rest_object
SettingsToRest(s) == [rest_type |-> "ForecastingSettings", properties |-> s]

SettingsFromRest(r) == r.properties

\* ForecastingTrainingSettings._to_rest_object / _from_rest_object
TrainingToRest(t) == [rest_type |-> "ForecastingTrainingSettings", properties |-> t]

TrainingFromRest(r) == r.properties

\* TabularFeaturizationSettings._to_rest_object / _from_rest_object
FeaturizationToRest(f) ==
  [rest_type |-> "TableVerticalFeaturizationSettings", properties |-> f]

FeaturizationFromRest(r) == r.properties

\* TabularLimitSettings._to_rest_object / _from_rest_object
LimitsToRest(l) == [rest_type |-> "TableVerticalLimitSettings", properties |-> l]

LimitsFromRest(r) == r.properties

\* identity._to_job_rest_object / _BaseJobIdentityConfiguration._from_rest_object
IdentityToRest(i) == [rest_type |-> "IdentityConfiguration", properties |-> i]

IdentityFromRest(r) == r.properties

\* mutant: the branch without forecasting settings leaves the training
\* settings out as well
ToRestBranchesDiffer(j) ==
  [ task_details |->
      IF ~IsNone(j.forecasting_settings)
      THEN [ target_column_name |-> j.base.target_column_name,
             data |-> j.base.data,
             featurization_settings |->
               IF ~IsNone(j.base.featurization)
                 THEN Some(FeaturizationToRest(Val(j.base.featurization))) ELSE None,
             limit_settings |->
               IF ~IsNone(j.base.limits)
                 THEN Some(LimitsToRest(Val(j.base.limits))) ELSE None,
             training_settings |->
               IF ~IsNone(j.training)
                 THEN Some(TrainingToRest(Val(j.training))) ELSE None,
             primary_metric |-> j.primary_metric,
             forecasting_settings |->
               Some(SettingsToRest(Val(j.forecasting_settings))) ]
      ELSE [ target_column_name |-> j.base.target_column_name,
             data |-> j.base.data,
             featurization_settings |->
               IF ~IsNone(j.base.featurization)
                 THEN Some(FeaturizationToRest(Val(j.base.featurization))) ELSE None,
             limit_settings |->
               IF ~IsNone(j.base.limits)
                 THEN Some(LimitsToRest(Val(j.base.limits))) ELSE None,
             training_settings |-> None,
             primary_metric |-> j.primary_metric,
             forecasting_settings |-> None ],
    identity |->
      IF ~IsNone(j.base.identity)
        THEN Some(IdentityToRest(Val(j.base.identity))) ELSE None ]

\* the job envelope: the task details (RestForecasting) and the identity
_to_rest_object(j) ==
  [ task_details |->
      IF ~IsNone(j.forecasting_settings)
      THEN [ target_column_name |-> j.base.target_column_name,
             data |-> j.base.data,
             featurization_settings |->
               IF ~IsNone(j.base.featurization)
                 THEN Some(FeaturizationToRest(Val(j.base.featurization))) ELSE None,
             limit_settings |->
               IF ~IsNone(j.base.limits)
                 THEN Some(LimitsToRest(Val(j.base.limits))) ELSE None,
             training_settings |->
               IF ~IsNone(j.training)
                 THEN Some(TrainingToRest(Val(j.training))) ELSE None,
             primary_metric |-> j.primary_metric,
             forecasting_settings |->
               Some(SettingsToRest(Val(j.forecasting_settings))) ]
      ELSE [ target_column_name |-> j.base.target_column_name,
             data |-> j.base.data,
             featurization_settings |->
               IF ~IsNone(j.base.featurization)
                 THEN Some(FeaturizationToRest(Val(j.base.featurization))) ELSE None,
             limit_settings |->
               IF ~IsNone(j.base.limits)
                 THEN Some(LimitsToRest(Val(j.base.limits))) ELSE None,
             training_settings |->
               IF ~IsNone(j.training)
                 THEN Some(TrainingToRest(Val(j.training))) ELSE None,
             primary_metric |-> j.primary_metric,
             forecasting_settings |-> None ],
    identity |->
      IF ~IsNone(j.base.identity)
        THEN Some(IdentityToRest(Val(j.base.identity))) ELSE None ]

\* mutant: absent wire settings are rebuilt as a default record
FromRestDefaultsSettings(w) ==
  ForecastingJob(
    w.task_details.primary_metric,
    IF ~IsNone(w.task_details.forecasting_settings)
      THEN Some(SettingsFromRest(Val(w.task_details.forecasting_settings)))
      ELSE Some(ForecastingSettings),
    IF ~IsNone(w.task_details.training_settings)
      THEN Some(TrainingFromRest(Val(w.task_details.training_settings))) ELSE None,
    [Base(w.task_details.target_column_name,
         IF ~IsNone(w.task_details.featurization_settings)
           THEN Some(FeaturizationFromRest(Val(w.task_details.featurization_settings)))
           ELSE None,
         IF ~IsNone(w.task_details.limit_settings)
           THEN Some(LimitsFromRest(Val(w.task_details.limit_settings))) ELSE None,
         IF ~IsNone(w.identity) THEN Some(IdentityFromRest(Val(w.identity)))
           ELSE None)
       EXCEPT !.data = w.task_details.data])

\* mutant: absent wire limits are rebuilt as a default record
FromRestDefaultsLimits(w) ==
  ForecastingJob(
    w.task_details.primary_metric,
    IF ~IsNone(w.task_details.forecasting_settings)
      THEN Some(SettingsFromRest(Val(w.task_details.forecasting_settings)))
      ELSE None,
    IF ~IsNone(w.task_details.training_settings)
      THEN Some(TrainingFromRest(Val(w.task_details.training_settings))) ELSE None,
    [Base(w.task_details.target_column_name,
         IF ~IsNone(w.task_details.featurization_settings)
           THEN Some(FeaturizationFromRest(Val(w.task_details.featurization_settings)))
           ELSE None,
         IF ~IsNone(w.task_details.limit_settings)
           THEN Some(LimitsFromRest(Val(w.task_details.limit_settings)))
           ELSE Some(TabularLimitSettings),
         IF ~IsNone(w.identity) THEN Some(IdentityFromRest(Val(w.identity)))
           ELSE None)
       EXCEPT !.data = w.task_details.data])

_from_rest_object(w) ==
  ForecastingJob(
    w.task_details.primary_metric,
    IF ~IsNone(w.task_details.forecasting_settings)
      THEN Some(SettingsFromRest(Val(w.task_details.forecasting_settings)))
      ELSE None,
    IF ~IsNone(w.task_details.training_settings)
      THEN Some(TrainingFromRest(Val(w.task_details.training_settings))) ELSE None,
    [Base(w.task_details.target_column_name,
         IF ~IsNone(w.task_details.featurization_settings)
           THEN Some(FeaturizationFromRest(Val(w.task_details.featurization_settings)))
           ELSE None,
         IF ~IsNone(w.task_details.limit_settings)
           THEN Some(LimitsFromRest(Val(w.task_details.limit_settings))) ELSE None,
         IF ~IsNone(w.identity) THEN Some(IdentityFromRest(Val(w.identity)))
           ELSE None)
       EXCEPT !.data = w.task_details.data])

(***************************************************************************)
(* Equality.                                                               *)
(***************************************************************************)
\* AutoMLTabular.__eq__: the inherited tabular fields
super_eq(a, b) == a.base = b.base /\ a.training = b.training

\* mutant: the forecasting settings are left out of the comparison
EqIgnoresSettings(a, o) ==
  IF ~o.is_job THEN "NotImplemented"
  ELSE IF ~super_eq(a, o.job) THEN "False"
  ELSE IF a.primary_metric = o.job.primary_metric THEN "True" ELSE "False"

\* mutant: the operand's type is not tested before its fields are compared
EqNoTypeCheck(a, o) ==
  IF ~super_eq(a, o.job) THEN "False"
  ELSE IF a.primary_metric = o.job.primary_metric
          /\ a.forecasting_settings = o.job.forecasting_settings
       THEN "True" ELSE "False"

\* ForecastingJob.__eq__(self, other); o is [is_job, job]
__eq__(a, o) ==
  IF ~o.is_job THEN "NotImplemented"
  ELSE IF ~super_eq(a, o.job) THEN "False"
  ELSE IF a.primary_metric = o.job.primary_metric
          /\ a.forecasting_settings = o.job.forecasting_settings
       THEN "True" ELSE "False"

\* the outcomes of Python's "not x" on a result of __eq__: NotImplemented is
\* truthy up to Python 3.13 (with a DeprecationWarning since 3.9) and its
\* truth value raises TypeError from Python 3.14 on
Not(x) ==
  IF x = "NotImplemented" THEN {"False", "TypeError"}
  ELSE IF x = "True" THEN {"False"}
  ELSE {"True"}

\* ForecastingJob.__ne__(self, other): the set of possible outcomes
__ne__(a, o) == Not(__eq__(a, o))

(***************************************************************************)
(* The declarative document.  A mapping is a function from its keys to     *)
(* their values; apart from "task" and "primary_metric" the value of a key *)
(* is an Optional.  The two schemas are external: a dump drops the         *)
(* attributes that are None and writes the metric as its snake-cased       *)
(* string, a load renames the nested "forecasting" key, and a document of   *)
(* one shape is refused by the schema of the other.                        *)
(***************************************************************************)
AutoMLForecastingSchema == "AutoMLForecastingSchema"

AutoMLForecastingNodeSchema == "AutoMLForecastingNodeSchema"

TASK_TYPE_YAML == "task"

NestedKeys == {"forecasting", "training", "featurization", "limits", "identity"}

\* dict.pop(k, default) without the removal, and the mapping after removals
Pop(m, k, default) == IF k \in DOMAIN m THEN m[k] ELSE default

Without(m, K) == [k \in DOMAIN m \ K |-> m[k]]

\* AutoMLTabular.set_data(**data_settings)
set_data(j, d) ==
  [j EXCEPT !.base.target_column_name = d["target_column_name"],
            !.base.data = [k \in OtherDataKeys |-> d[k]]]

\* the attributes of job j that a schema dumps, by document key
Attributes(j) ==
  [k \in NestedKeys \cup DataKeys |->
     IF k = "forecasting" THEN j.forecasting_settings
     ELSE IF k = "training" THEN j.training
     ELSE IF k = "featurization" THEN j.base.featurization
     ELSE IF k = "limits" THEN j.base.limits
     ELSE IF k = "identity" THEN j.base.identity
     ELSE IF k = "target_column_name" THEN j.base.target_column_name
     ELSE j.base.data[k]]

\* the metric field of the schemas: an enum member is written snake-cased
DumpMetric(pm) ==
  IF pm.kind = "enum" THEN StrValue(camel_to_snake(Text(pm))) ELSE pm

\* schema(context).dump(job)
SchemaDump(schema, j) ==
  LET a == Attributes(j)
      present == {k \in DOMAIN a : ~IsNone(a[k])}
  IN  [ schema |-> schema,
        fields |->
          [k \in present \cup {TASK_TYPE_YAML, "primary_metric"} |->
             IF k = TASK_TYPE_YAML THEN "forecasting"
             ELSE IF k = "primary_metric" THEN DumpMetric(j.primary_metric)
             ELSE a[k]] ]

DocKey(k) == IF k = "forecasting_settings" THEN "forecasting" ELSE k

LoadedKey(k) == IF k = "forecasting" THEN "forecasting_settings" ELSE k

ValidationError == [type |-> "ValidationError", args |-> << >>]

\* load_from_dict(schema, data, context, additional_message, **kwargs)
load_from_dict(schema, d, kwargs) ==
  IF d.schema # schema
  THEN [raised |-> TRUE, error |-> ValidationError, value |-> << >>]
  ELSE [raised |-> FALSE, error |-> NoError,
        value |-> [k \in {LoadedKey(x) : x \in DOMAIN d.fields} |->
                     d.fields[DocKey(k)]]]

\* ForecastingJob(**loaded_data)
ForecastingJobFromKwargs(m) ==
  ForecastingJob(
    Pop(m, "primary_metric", NoneValue),
    Pop(m, "forecasting_settings", None),
    Pop(m, "training", None),
    Base(None, Pop(m, "featurization", None), Pop(m, "limits", None),
         Pop(m, "identity", None)))

Failed(e) ==
  [raised |-> TRUE, error |-> e, job |-> None, kwargs |-> {},
   data_settings |-> [k \in DataKeys |-> None]]

\* mutant: the two required data fields default to None like the others
CreateInstanceAllOptional(m) ==
  LET m1 == Without(m, {TASK_TYPE_YAML})
      data_settings == [k \in DataKeys |-> Pop(m1, k, None)]
      rest == Without(m1, DataKeys)
      r == ForecastingJobFromKwargs(rest)
  IN  IF r.raised THEN Failed(r.error)
      ELSE [raised |-> FALSE, error |-> NoError,
            job |-> Some(set_data(r.job, data_settings)),
            kwargs |-> DOMAIN rest, data_settings |-> data_settings]

\* ForecastingJob._create_instance_from_schema_dict(loaded_data): kwargs is
\* the set of keys handed to the constructor
_create_instance_from_schema_dict(m) ==
  LET m1 == Without(m, {TASK_TYPE_YAML})
  IN  IF "training_data" \notin DOMAIN m1 THEN Failed(KeyError("training_data"))
      ELSE IF "target_column_name" \notin DOMAIN m1
      THEN Failed(KeyError("target_column_name"))
      ELSE LET data_settings == [k \in DataKeys |-> Pop(m1, k, None)]
               rest == Without(m1, DataKeys)
               r == ForecastingJobFromKwargs(rest)
           IN  IF r.raised THEN Failed(r.error)
               ELSE [raised |-> FALSE, error |-> NoError,
                     job |-> Some(set_data(r.job, data_settings)),
                     kwargs |-> DOMAIN rest, data_settings |-> data_settings]

\* mutant: the flag is read but left among the forwarded keyword arguments
LoadForwardsFlag(d, kwargs) ==
  LET flag == Pop(kwargs, "inside_pipeline", FALSE)
      schema == IF flag THEN AutoMLForecastingNodeSchema ELSE AutoMLForecastingSchema
      l == load_from_dict(schema, d, kwargs)
  IN  [ schema |-> schema, forwarded |-> DOMAIN kwargs,
        result |-> IF l.raised THEN Failed(l.error)
                   ELSE _create_instance_from_schema_dict(l.value) ]

\* ForecastingJob._load_from_dict(data, context, additional_message, **kwargs)
_load_from_dict(d, kwargs) ==
  LET flag == Pop(kwargs, "inside_pipeline", FALSE)
      forwarded == Without(kwargs, {"inside_pipeline"})
      schema == IF flag THEN AutoMLForecastingNodeSchema ELSE AutoMLForecastingSchema
      l == load_from_dict(schema, d, forwarded)
  IN  [ schema |-> schema, forwarded |-> DOMAIN forwarded,
        result |-> IF l.raised THEN Failed(l.error)
                   ELSE _create_instance_from_schema_dict(l.value) ]

\* mutant: the standalone schema is used whatever the flag
ToDictIgnoresFlag(j, inside_pipeline) == SchemaDump(AutoMLForecastingSchema, j)

\* ForecastingJob._to_dict(inside_pipeline)
_to_dict(j, inside_pipeline) ==
  IF inside_pipeline THEN SchemaDump(AutoMLForecastingNodeSchema, j)
  ELSE SchemaDump(AutoMLForecastingSchema, j)

(***************************************************************************)
(* Inputs.                                                                 *)
(***************************************************************************)
Caps == {"lower", "upper", "capitalized", "camel"}

Seps == {<< >>, <<"_">>}

Cased(w, cap, i) ==
  IF cap = "upper" THEN StrUpper(w)
  ELSE IF cap = "capitalized" \/ (cap = "camel" /\ i > 1) THEN Capitalized(w)
  ELSE w

\* the name of member m written with capitalisation cap and separator sep
Spell(m, cap, sep) == Join([i \in 1..Len(m) |-> Cased(m[i], cap, i)], sep)

Spellings(m) == {Spell(m, cap, sep) : cap \in Caps, sep \in Seps}

W_accuracy == <<"a", "c", "c", "u", "r", "a", "c", "y">>

W_inputs_metric == <<".", "i", "n", "p", "u", "t", "s", ".", "m", "e", "t", "r", "i", "c">>

Placeholders ==
  { BindingOpen \o ParentPrefix \o W_inputs_metric \o BindingClose,
    BindingOpen \o <<" ">> \o ParentPrefix \o W_inputs_metric \o <<" ">> \o BindingClose,
    BindingOpen \o ParentPrefix \o <<".">> \o W_r2 \o W_score \o BindingClose }

\* strings that are neither placeholders nor spellings of a member
OtherStrings ==
  { W_accuracy, Capitalized(W_accuracy), StrUpper(W_accuracy),
    BindingOpen \o <<"i", "n", "p", "u", "t", "s">> \o BindingClose,
    ParentPrefix \o W_inputs_metric }

MetricInputs ==
  {NoneValue}
    \cup {EnumValue(n) : n \in MemberNames}
    \cup {StrValue(s) : s \in UNION {Spellings(m) : m \in ForecastingPrimaryMetrics}}
    \cup {StrValue(s) : s \in Placeholders \cup OtherStrings}

\* the sets of at most k fields that a call passes
RECURSIVE FieldSets(_)
FieldSets(k) ==
  IF k = 0 THEN {{}}
  ELSE LET P == FieldSets(k - 1) IN P \cup {S \cup {f} : S \in P, f \in FieldNames}

ArgSets == FieldSets(MaxArgs)

SettingsArgs(S, v) == [f \in FieldNames |-> IF f \in S THEN Some(v[f]) ELSE None]

TrainingArgs == [enable_stack_ensemble : OptBool, enable_vote_ensemble : OptBool]

NoSettingsArgs == [f \in FieldNames |-> None]

NoTrainingArgs == [enable_stack_ensemble |-> None, enable_vote_ensemble |-> None]

CtorMetrics ==
  { NoneValue, StrValue(<< >>), StrValue(Spell(<<W_r2, W_score>>, "capitalized", << >>)),
    StrValue(BindingOpen \o ParentPrefix \o W_inputs_metric \o BindingClose) }

CtorSettings == {None, Some([ForecastingSettings EXCEPT !.seasonality = Some(1)])}

CtorTraining ==
  {None, Some([enable_stack_ensemble |-> Some(TRUE), enable_vote_ensemble |-> None])}

DefaultBase == Base(Some("y"), None, None, None)

NotAJob == [is_job |-> FALSE, job |-> ForecastingJob(NoneValue, None, None, DefaultBase).job]

(***************************************************************************)
(* State machine.  last describes the latest call: its operation, its      *)
(* arguments, whether it raised, the job before it (pre; for __init__ the   *)
(* constructor's arguments) and, for set_training, the job as the          *)
(* base-class delegation left it (delegated).                              *)
(***************************************************************************)
Call(op, r, v, a, t, d) ==
  [op |-> op, raised |-> r.raised, error |-> r.error, value |-> v,
   args |-> a, targs |-> t, pre |-> job, delegated |-> d]

Done(j) == [raised |-> FALSE, error |-> NoError, job |-> j]

Init ==
  /\ \E pm \in CtorMetrics, fs \in CtorSettings, tr \in CtorTraining :
       LET r == ForecastingJob(pm, fs, tr, DefaultBase)
       IN  /\ ~r.raised
           /\ job = r.job
           /\ last = [op |-> "__init__", raised |-> FALSE, error |-> NoError,
                      value |-> pm, args |-> NoSettingsArgs, targs |-> NoTrainingArgs,
                      pre |-> [primary_metric |-> pm, forecasting_settings |-> fs,
                               training |-> tr, base |-> DefaultBase],
                      delegated |-> r.job]
  /\ other = NotAJob
  /\ steps = 0
  /\ wire = None
  /\ restored = None
  /\ eq_result = "unset"
  /\ ne_result = "unset"
  /\ doc = None
  /\ loaded = None

SetPrimaryMetric ==
  /\ steps < MaxSteps
  /\ \E v \in MetricInputs :
       LET r == primary_metric_setter(job, v)
       IN  /\ job' = r.job
           /\ last' = Call("primary_metric", r, v, NoSettingsArgs, NoTrainingArgs, job)
  /\ steps' = steps + 1
  /\ UNCHANGED <<other, wire, restored, eq_result, ne_result, doc, loaded>>

SetForecastSettings ==
  /\ steps < MaxSteps
  /\ \E S \in ArgSets : \E v \in [S -> 1..MaxVal] :
       LET a == SettingsArgs(S, v)
       IN  /\ job' = set_forecast_settings(job, a)
           /\ last' = Call("set_forecast_settings", Done(job), NoneValue, a,
                           NoTrainingArgs, job)
  /\ steps' = steps + 1
  /\ UNCHANGED <<other, wire, restored, eq_result, ne_result, doc, loaded>>

SetTraining ==
  /\ steps < MaxSteps
  /\ \E t \in TrainingArgs, d \in OptBool :
       /\ job' = set_training(job, t, d)
       /\ last' = Call("set_training", Done(job), NoneValue, NoSettingsArgs, t,
                       super_set_training(job, t, d))
  /\ steps' = steps + 1
  /\ UNCHANGED <<other, wire, restored, eq_result, ne_result, doc, loaded>>

\* wire holds the object the latest _to_rest_object returned and the job it
\* was made from
ToRestObject ==
  /\ steps < MaxSteps
  /\ wire' = Some([obj |-> _to_rest_object(job), src |-> job])
  /\ last' = Call("_to_rest_object", Done(job), NoneValue, NoSettingsArgs,
                  NoTrainingArgs, job)
  /\ steps' = steps + 1
  /\ UNCHANGED <<job, other, restored, eq_result, ne_result, doc, loaded>>

FromRestObject ==
  /\ steps < MaxSteps
  /\ ~IsNone(wire)
  /\ LET r == _from_rest_object(Val(wire).obj)
     IN  /\ restored' = IF r.raised THEN restored ELSE Some(r.job)
         /\ last' = Call("_from_rest_object", r, NoneValue, NoSettingsArgs,
                         NoTrainingArgs, job)
  /\ steps' = steps + 1
  /\ UNCHANGED <<job, other, wire, eq_result, ne_result, doc, loaded>>

Next ==
  \/ SetPrimaryMetric
  \/ SetForecastSettings
  \/ SetTraining
  \/ ToRestObject
  \/ FromRestObject

Spec == Init /\ [][Next]_vars

(***************************************************************************)
(* Equality of two jobs: both are drawn from constructed jobs, the other   *)
(* operand may also be an object of another type.                          *)
(***************************************************************************)
EqSettings ==
  {None, Some(ForecastingSettings)}
    \cup {Some([ForecastingSettings EXCEPT !.seasonality = Some(v)]) : v \in 1..MaxVal}

EqBases ==
  { DefaultBase, Base(Some("z"), None, None, None),
    Base(Some("y"), None, Some(TabularLimitSettings), None) }

EqJobs ==
  { ForecastingJob(pm, fs, tr, b).job :
      pm \in CtorMetrics, fs \in EqSettings, tr \in CtorTraining, b \in EqBases }

InitEq ==
  /\ job \in EqJobs
  /\ other \in {[is_job |-> TRUE, job |-> o] : o \in EqJobs} \cup {NotAJob}
  /\ last = [op |-> "__init__", raised |-> FALSE, error |-> NoError,
             value |-> NoneValue, args |-> NoSettingsArgs, targs |-> NoTrainingArgs,
             pre |-> job, delegated |-> job]
  /\ steps = 0
  /\ wire = None
  /\ restored = None
  /\ eq_result = "unset"
  /\ ne_result = "unset"
  /\ doc = None
  /\ loaded = None

Compare ==
  /\ steps < MaxSteps
  /\ eq_result' = __eq__(job, other)
  /\ last' = Call("__eq__", Done(job), NoneValue, NoSettingsArgs, NoTrainingArgs, job)
  /\ steps' = steps + 1
  /\ UNCHANGED <<job, other, wire, restored, ne_result, doc, loaded>>

\* job != other
CompareNe ==
  /\ steps < MaxSteps
  /\ ne_result' \in __ne__(job, other)
  /\ last' = Call("__ne__", Done(job), NoneValue, NoSettingsArgs, NoTrainingArgs, job)
  /\ steps' = steps + 1
  /\ UNCHANGED <<job, other, wire, restored, eq_result, doc, loaded>>

NextEq ==
  \/ Compare
  \/ CompareNe

SpecEq == InitEq /\ [][NextEq]_vars

(***************************************************************************)
(* The wire conversions applied to constructed jobs with every combination *)
(* of present and absent nested records.                                   *)
(***************************************************************************)
RestBases ==
  { Base(Some("y"), feat, lim, ident) :
      feat \in {None, Some(TabularFeaturizationSettings)},
      lim \in {None, Some(TabularLimitSettings)},
      ident \in {None, Some(IdentityConfiguration)} }

RestJobs ==
  { ForecastingJob(pm, fs, tr, b).job :
      pm \in CtorMetrics, fs \in EqSettings, tr \in CtorTraining, b \in RestBases }

InitRest ==
  /\ job \in RestJobs
  /\ other = NotAJob
  /\ last = [op |-> "__init__", raised |-> FALSE, error |-> NoError,
             value |-> NoneValue, args |-> NoSettingsArgs, targs |-> NoTrainingArgs,
             pre |-> job, delegated |-> job]
  /\ steps = 0
  /\ wire = None
  /\ restored = None
  /\ eq_result = "unset"
  /\ ne_result = "unset"
  /\ doc = None
  /\ loaded = None

NextRest ==
  \/ ToRestObject
  \/ FromRestObject

SpecRest == InitRest /\ [][NextRest]_vars

(***************************************************************************)
(* The declarative document: constructed jobs are dumped, dumped documents *)
(* are loaded, and normalized mappings with some keys missing are turned   *)
(* into jobs.                                                              *)
(***************************************************************************)
DataInputs ==
  { [k \in DataKeys |-> None],
    [k \in DataKeys |->
       IF k \in {"training_data", "target_column_name"} THEN Some(k) ELSE None],
    [k \in DataKeys |-> Some(k)] }

DictJobs ==
  { set_data(ForecastingJob(pm, fs, None, Base(None, None, None, None)).job, d) :
      pm \in CtorMetrics, fs \in CtorSettings, d \in DataInputs }

\* the inside_pipeline argument of _to_dict: not given, True or False
FlagInputs == {None, Some(TRUE), Some(FALSE)}

\* the keyword arguments of _load_from_dict
KwargsInputs ==
  { [k \in K |-> IF k = "inside_pipeline" THEN b ELSE "x"] :
      K \in SUBSET {"inside_pipeline", "unknown"}, b \in BOOLEAN }

\* the normalized mapping that the standalone schema loads for job j
LoadedMapping(j) ==
  load_from_dict(AutoMLForecastingSchema, _to_dict(j, FALSE), << >>).value

\* the sets of at most n keys missing from a mapping
RECURSIVE DropSets(_)
DropSets(n) ==
  IF n = 0 THEN {{}}
  ELSE LET P == DropSets(n - 1)
       IN  P \cup {S \cup {k} : S \in P, k \in DataKeys \cup {TASK_TYPE_YAML}}

InitDict ==
  /\ job \in DictJobs
  /\ other = NotAJob
  /\ last = [op |-> "__init__", raised |-> FALSE, error |-> NoError,
             value |-> NoneValue, args |-> NoSettingsArgs, targs |-> NoTrainingArgs,
             pre |-> job, delegated |-> job]
  /\ steps = 0
  /\ wire = None
  /\ restored = None
  /\ eq_result = "unset"
  /\ ne_result = "unset"
  /\ doc = None
  /\ loaded = None

\* doc holds the document the latest _to_dict returned, its flag and the job
ToDict ==
  /\ steps < MaxSteps
  /\ \E f \in FlagInputs :
       doc' = Some([flag |-> f, src |-> job,
                    document |-> _to_dict(job, IF IsNone(f) THEN FALSE ELSE Val(f))])
  /\ last' = Call("_to_dict", Done(job), NoneValue, NoSettingsArgs, NoTrainingArgs, job)
  /\ steps' = steps + 1
  /\ UNCHANGED <<job, other, wire, restored, eq_result, ne_result, loaded>>

\* loaded holds the input, the keyword arguments and the outcome of the
\* latest load
LoadFromDict ==
  /\ steps < MaxSteps
  /\ ~IsNone(doc)
  /\ \E kw \in KwargsInputs :
       LET c == _load_from_dict(Val(doc).document, kw)
       IN  /\ loaded' = Some([data |-> Val(doc).document, kwargs |-> kw, call |-> c])
           /\ last' = Call("_load_from_dict", c.result, NoneValue, NoSettingsArgs,
                           NoTrainingArgs, job)
  /\ steps' = steps + 1
  /\ UNCHANGED <<job, other, wire, restored, eq_result, ne_result, doc>>

CreateInstance ==
  /\ steps < MaxSteps
  /\ \E K \in DropSets(MaxDrop) :
       LET m == Without(LoadedMapping(job), K)
           r == _create_instance_from_schema_dict(m)
       IN  /\ loaded' = Some([data |-> m, kwargs |-> << >>,
                              call |-> [schema |-> "", forwarded |-> {}, result |-> r]])
           /\ last' = Call("_create_instance_from_schema_dict", r, NoneValue,
                           NoSettingsArgs, NoTrainingArgs, job)
  /\ steps' = steps + 1
  /\ UNCHANGED <<job, other, wire, restored, eq_result, ne_result, doc>>

NextDict ==
  \/ ToDict
  \/ LoadFromDict
  \/ CreateInstance

SpecDict == InitDict /\ [][NextDict]_vars

(***************************************************************************)
(* The training property next to set_training.  For a read, last.targs is  *)
(* the returned record; for an assignment it is the assigned record.       *)
(***************************************************************************)
ReadTraining ==
  /\ steps < MaxSteps
  /\ \E d \in OptBool :
       LET r == training_getter(job, d)
       IN  /\ job' = r.job
           /\ last' = Call("training.getter", Done(job), NoneValue, NoSettingsArgs,
                           r.value, job)
  /\ steps' = steps + 1
  /\ UNCHANGED <<other, wire, restored, eq_result, ne_result, doc, loaded>>

AssignTraining ==
  /\ steps < MaxSteps
  /\ \E v \in TrainingArgs :
       /\ job' = training_setter(job, v)
       /\ last' = Call("training.setter", Done(job), NoneValue, NoSettingsArgs, v, job)
  /\ steps' = steps + 1
  /\ UNCHANGED <<other, wire, restored, eq_result, ne_result, doc, loaded>>

NextTraining ==
  \/ SetTraining
  \/ ReadTraining
  \/ AssignTraining

SpecTraining == Init /\ [][NextTraining]_vars

(***************************************************************************)
(* Properties.                                                             *)
(***************************************************************************)
IsStored(pm) ==
  \/ pm.kind = "enum" /\ pm.chars \in MemberNames
  \/ pm.kind = "str" /\ pm.chars \in Placeholders

\* C1: primary_metric always holds a value (an enumeration member or a
\* placeholder string), after construction and after every primary_metric
\* assignment, set_forecast_settings call and set_training call; when the
\* value supplied at construction or on assignment is None, the stored value
\* is NORMALIZED_ROOT_MEAN_SQUARED_ERROR.
C1_PrimaryMetricNeverUnset ==
  /\ IsStored(job.primary_metric)
  /\ (last.op \in {"__init__", "primary_metric"} /\ last.value = NoneValue)
       => job.primary_metric = _DEFAULT_PRIMARY_METRIC

\* a None assignment replaced a metric other than the default
C1_Witness ==
  /\ last.op = "primary_metric"
  /\ last.value = NoneValue
  /\ last.pre.primary_metric # _DEFAULT_PRIMARY_METRIC
  /\ job.primary_metric = _DEFAULT_PRIMARY_METRIC

\* the settings record a set_forecast_settings call starts from
SettingsBefore(j) ==
  IF IsNone(j.forecasting_settings) THEN [f \in FieldNames |-> None]
  ELSE Val(j.forecasting_settings)

\* C2: after every set_forecast_settings call, each of the fourteen fields
\* equals the argument when the argument is not None, and otherwise equals
\* its value before the call (the default of a record created by the call).
C2_PartialUpdate ==
  last.op = "set_forecast_settings" =>
    /\ ~IsNone(job.forecasting_settings)
    /\ DOMAIN Val(job.forecasting_settings) = FieldNames
    /\ \A f \in FieldNames :
         Val(job.forecasting_settings)[f] =
           IF IsNone(last.args[f]) THEN SettingsBefore(last.pre)[f] ELSE last.args[f]

\* a call with only seasonality after a call with only time_column_name:
\* both are populated, every other field is at its default
C2_Witness ==
  /\ last.op = "set_forecast_settings"
  /\ \A f \in FieldNames : IsNone(last.args[f]) <=> f # "seasonality"
  /\ ~IsNone(last.pre.forecasting_settings)
  /\ \A f \in FieldNames :
       IsNone(Val(last.pre.forecasting_settings)[f]) <=> f # "time_column_name"
  /\ \A f \in FieldNames :
       IsNone(Val(job.forecasting_settings)[f])
         <=> f \notin {"time_column_name", "seasonality"}

StackEnsemble(j) == Val(j.training).enable_stack_ensemble

\* C3: after every set_training call that does not pass
\* enable_stack_ensemble, the stored training settings exist and have
\* enable_stack_ensemble = False, whatever the delegation left there.
C3_StackEnsembleOffByDefault ==
  (last.op = "set_training" /\ IsNone(last.targs.enable_stack_ensemble)) =>
    /\ ~IsNone(job.training)
    /\ StackEnsemble(job) = Some(FALSE)

\* a call without the flag, after an earlier call that passed True (and the
\* vote toggle, which only set_training can set): the delegation kept True
C3_Witness ==
  /\ last.op = "set_training"
  /\ IsNone(last.targs.enable_stack_ensemble)
  /\ ~IsNone(last.pre.training)
  /\ StackEnsemble(last.pre) = Some(TRUE)
  /\ Val(last.pre.training).enable_vote_ensemble = Some(TRUE)
  /\ StackEnsemble(last.delegated) = Some(TRUE)
  /\ StackEnsemble(job) = Some(FALSE)

SameMetricAndSettings(a, b) ==
  /\ a.primary_metric = b.primary_metric
  /\ IsNone(a.forecasting_settings) <=> IsNone(b.forecasting_settings)
  /\ a.forecasting_settings = b.forecasting_settings

C5_Equality ==
  (last.op = "__eq__" /\ other.is_job) =>
    /\ eq_result \in {"True", "False"}
    /\ eq_result = "True" <=>
         /\ job.base = other.job.base
         /\ job.training = other.job.training
         /\ job.primary_metric = other.job.primary_metric
         /\ IsNone(job.forecasting_settings) = IsNone(other.job.forecasting_settings)
         /\ job.forecasting_settings = other.job.forecasting_settings
    /\ eq_result = "True" <=> job = other.job

\* two jobs that differ only in the seasonality of their settings compared
\* unequal
C5_Witness ==
  /\ last.op = "__eq__"
  /\ other.is_job
  /\ eq_result = "False"
  /\ ~IsNone(job.forecasting_settings)
  /\ ~IsNone(other.job.forecasting_settings)
  /\ Val(job.forecasting_settings).seasonality
       # Val(other.job.forecasting_settings).seasonality
  /\ [other.job EXCEPT !.forecasting_settings = job.forecasting_settings] = job

\* C9: a job constructed without forecasting_settings has none; while the
\* settings are absent, a primary_metric assignment, a set_training call and
\* a serialization leave them absent, and a set_forecast_settings call, with
\* or without arguments, makes them present.
C9_SettingsLazilyCreated ==
  /\ (last.op = "__init__" /\ IsNone(last.pre.forecasting_settings))
       => IsNone(job.forecasting_settings)
  /\ (last.op # "__init__" /\ IsNone(last.pre.forecasting_settings))
       => (~IsNone(job.forecasting_settings) <=> last.op = "set_forecast_settings")
  /\ last.op \in {"_to_rest_object", "_from_rest_object"}
       => job.forecasting_settings = last.pre.forecasting_settings

\* the first set_forecast_settings call passed no argument and created the
\* record, after a call of another operation had left the settings absent
C9_Witness ==
  /\ last.op = "set_forecast_settings"
  /\ last.args = NoSettingsArgs
  /\ steps = 2
  /\ IsNone(last.pre.forecasting_settings)
  /\ job.forecasting_settings = Some(ForecastingSettings)

\* C10: a set_training call that passes enable_stack_ensemble leaves the job
\* as the base-class delegation left it, with the flag equal to the value
\* passed; after any set_training call the flag is True only if the call
\* passed True.
C10_ExplicitFlagKept ==
  last.op = "set_training" =>
    /\ ~IsNone(last.targs.enable_stack_ensemble) =>
         /\ job = last.delegated
         /\ StackEnsemble(job) = last.targs.enable_stack_ensemble
    /\ StackEnsemble(job) = Some(TRUE) => last.targs.enable_stack_ensemble = Some(TRUE)

\* a call passed True on a job whose stored flag was False
C10_Witness ==
  /\ last.op = "set_training"
  /\ last.targs.enable_stack_ensemble = Some(TRUE)
  /\ ~IsNone(last.pre.training)
  /\ StackEnsemble(last.pre) = Some(FALSE)
  /\ StackEnsemble(job) = Some(TRUE)

\* a string that is neither a placeholder nor, once normalized, a member name
InvalidMetric(v) ==
  /\ v.kind = "str"
  /\ v.chars \notin Placeholders
  /\ NormalizedKey(v) \notin MemberNames

\* error e carries the string s among its arguments
Names(e, s) == \E i \in 1..Len(e.args) : e.args[i] = s

\* C6 as stated: assigning an invalid string raises an error that identifies
\* the offending input and the valid metric set.
C6_ErrorNamesInputAndValidSet ==
  (last.op = "primary_metric" /\ InvalidMetric(last.value)) =>
    /\ last.raised
    /\ Names(last.error, last.value.chars)
    /\ \A n \in MemberNames : Names(last.error, n)

\* C6 (amended): assigning an invalid string raises a KeyError whose only
\* argument is the normalized (snake-cased, upper-cased) form of the input;
\* nothing catches it and no fallback value is stored.
C6_InvalidMetricRaisesKeyError ==
  (last.op = "primary_metric" /\ InvalidMetric(last.value)) =>
    /\ last.raised
    /\ last.error.type = "KeyError"
    /\ last.error.args = <<StrUpper(camel_to_snake(last.value.chars))>>
    /\ job.primary_metric = last.pre.primary_metric

\* "accuracy", which is no forecasting metric, was assigned and raised
C6_Witness ==
  /\ last.op = "primary_metric"
  /\ last.value = StrValue(W_accuracy)
  /\ last.raised
  /\ last.error = KeyError(StrUpper(W_accuracy))

\* C7: assigning a placeholder string stores exactly that string and does not
\* raise, also when the placeholder's path spells a metric name.
C7_PlaceholderStoredVerbatim ==
  (last.op = "primary_metric" /\ last.value.kind = "str"
     /\ last.value.chars \in Placeholders) =>
    /\ ~last.raised
    /\ job.primary_metric = last.value

\* the placeholder ${{parent.r2score}} replaced an enumeration member
C7_Witness ==
  /\ last.op = "primary_metric"
  /\ last.value = StrValue(BindingOpen \o ParentPrefix \o <<".">> \o W_r2 \o W_score
                             \o BindingClose)
  /\ last.pre.primary_metric.kind = "enum"
  /\ job.primary_metric = last.value

SupportedSpellings(m) ==
  { Spell(m, "capitalized", << >>), Spell(m, "camel", << >>),
    Spell(m, "lower", <<"_">>), Spell(m, "upper", <<"_">>) }

C11_NeIsNegationOfEq ==
  last.op = "__ne__" =>
    (ne_result = "True" <=> __eq__(job, other) # "True")

\* C12: comparing a job with an object that is not a ForecastingJob returns
\* NotImplemented (no True/False verdict from the base or field comparison).
C12_NotAJobNotImplemented ==
  (last.op = "__eq__" /\ ~other.is_job) => eq_result = "NotImplemented"

C12_Witness ==
  /\ last.op = "__eq__"
  /\ ~other.is_job
  /\ other.job = job
  /\ eq_result = "NotImplemented"

\* the fields that a set_forecast_settings call with arguments a supplies are
\* stored in job j
Supplied(a, j) ==
  /\ ~IsNone(j.forecasting_settings)
  /\ \A f \in FieldNames :
       ~IsNone(a[f]) => Val(j.forecasting_settings)[f] = a[f]

C19_NothingCleared ==
  (last.op # "__init__" /\ ~IsNone(last.pre.forecasting_settings)) =>
    /\ ~IsNone(job.forecasting_settings)
    /\ \A f \in FieldNames :
         ~IsNone(Val(last.pre.forecasting_settings)[f])
           => ~IsNone(Val(job.forecasting_settings)[f])

C19_Witness ==
  /\ last.op = "set_forecast_settings"
  /\ ~IsNone(last.pre.forecasting_settings)
  /\ \E f, g \in FieldNames :
       /\ f # g
       /\ ~IsNone(Val(last.pre.forecasting_settings)[f])
       /\ IsNone(last.args[f])
       /\ ~IsNone(last.args[g])
       /\ Val(job.forecasting_settings)[f] = Val(last.pre.forecasting_settings)[f]

\* C20: a primary_metric assignment that raises leaves the job as it was: the
\* stored primary_metric, the forecasting settings and the training settings.
C20_FailedAssignmentChangesNothing ==
  (last.op = "primary_metric" /\ last.raised) =>
    /\ job.primary_metric = last.pre.primary_metric
    /\ job.forecasting_settings = last.pre.forecasting_settings
    /\ job.training = last.pre.training

C20_Witness ==
  /\ last.op = "primary_metric"
  /\ last.raised
  /\ job.primary_metric # _DEFAULT_PRIMARY_METRIC
  /\ job.primary_metric = last.pre.primary_metric
  /\ ~IsNone(job.forecasting_settings)
  /\ ~IsNone(job.training)

\* the task-details fields other than forecasting_settings
OtherFields(td) == [f \in DOMAIN td \ {"forecasting_settings"} |-> td[f]]

\* job j with the presence of its forecasting settings flipped
Flipped(j) ==
  [j EXCEPT !.forecasting_settings =
     IF IsNone(j.forecasting_settings) THEN Some(ForecastingSettings) ELSE None]

\* C15: the task details carry forecasting settings exactly when the job has
\* them (converted), an absent record is sent as None and never defaulted,
\* and every other task-details field is the same in both cases.
C15_WireSettingsIffPresent ==
  last.op = "_to_rest_object" =>
    LET td == Val(wire).obj.task_details
        j == Val(wire).src
    IN  /\ IsNone(td.forecasting_settings) <=> IsNone(j.forecasting_settings)
        /\ ~IsNone(j.forecasting_settings) =>
             td.forecasting_settings = Some(SettingsToRest(Val(j.forecasting_settings)))
        /\ OtherFields(td) = OtherFields(_to_rest_object(Flipped(j)).task_details)

C15_Witness ==
  /\ last.op = "_to_rest_object"
  /\ IsNone(Val(wire).src.forecasting_settings)
  /\ IsNone(Val(wire).obj.task_details.forecasting_settings)
  /\ ~IsNone(Val(wire).obj.task_details.training_settings)
  /\ ~IsNone(Val(wire).obj.task_details.featurization_settings)
  /\ IsNone(Val(wire).obj.task_details.limit_settings)

\* C16: _from_rest_object rebuilds featurization, limits, training,
\* forecasting settings and identity exactly when the wire counterpart is
\* present (from that counterpart), and passes None otherwise.
C16_RebuiltIffOnWire ==
  (last.op = "_from_rest_object" /\ ~last.raised) =>
    LET w == Val(wire).obj
        td == Val(wire).obj.task_details
        r == Val(restored)
    IN  /\ r.base.featurization =
             IF IsNone(td.featurization_settings) THEN None
             ELSE Some(FeaturizationFromRest(Val(td.featurization_settings)))
        /\ r.base.limits =
             IF IsNone(td.limit_settings) THEN None
             ELSE Some(LimitsFromRest(Val(td.limit_settings)))
        /\ r.training =
             IF IsNone(td.training_settings) THEN None
             ELSE Some(TrainingFromRest(Val(td.training_settings)))
        /\ r.forecasting_settings =
             IF IsNone(td.forecasting_settings) THEN None
             ELSE Some(SettingsFromRest(Val(td.forecasting_settings)))
        /\ r.base.identity =
             IF IsNone(w.identity) THEN None
             ELSE Some(IdentityFromRest(Val(w.identity)))

C16_Witness ==
  /\ last.op = "_from_rest_object"
  /\ ~last.raised
  /\ IsNone(Val(wire).obj.task_details.limit_settings)
  /\ IsNone(Val(restored).base.limits)
  /\ IsNone(Val(restored).forecasting_settings)
  /\ ~IsNone(Val(restored).base.featurization)
  /\ ~IsNone(Val(restored).base.identity)
  /\ ~IsNone(Val(restored).training)

\* the flag a call works with: False when it is not given
FlagOfDump == IF IsNone(Val(doc).flag) THEN FALSE ELSE Val(Val(doc).flag)

FlagOfLoad == Pop(Val(loaded).kwargs, "inside_pipeline", FALSE)

\* the latest call loaded the document of this job with the flag it was
\* dumped with
RoundTripThroughDocument ==
  /\ last.op = "_load_from_dict"
  /\ Val(doc).src = job
  /\ Val(loaded).data = Val(doc).document
  /\ FlagOfLoad = FlagOfDump

HasRequiredData(j) ==
  /\ ~IsNone(j.base.data["training_data"])
  /\ ~IsNone(j.base.target_column_name)

C17_FieldPartition ==
  last.op = "_create_instance_from_schema_dict" =>
    LET m == Val(loaded).data
        r == Val(loaded).call.result
        rest == Without(m, DataKeys \cup {TASK_TYPE_YAML})
    IN  IF {"training_data", "target_column_name"} \subseteq DOMAIN m
        THEN /\ ~r.raised
             /\ r.kwargs = DOMAIN m \ (DataKeys \cup {TASK_TYPE_YAML})
             /\ \A k \in DataKeys : r.data_settings[k] = Pop(m, k, None)
             /\ Val(r.job).base.target_column_name = m["target_column_name"]
             /\ \A k \in OtherDataKeys : Val(r.job).base.data[k] = Pop(m, k, None)
             /\ [Val(r.job) EXCEPT !.base.target_column_name = None,
                                   !.base.data = NoData]
                  = ForecastingJobFromKwargs(rest).job
        ELSE /\ r.raised
             /\ r.error.type = "KeyError"
             /\ IsNone(r.job)

C17_Witness ==
  /\ last.op = "_create_instance_from_schema_dict"
  /\ ~last.raised
  /\ TASK_TYPE_YAML \in DOMAIN Val(loaded).data
  /\ "validation_data" \in DOMAIN Val(loaded).data
  /\ "test_data" \notin DOMAIN Val(loaded).data
  /\ "forecasting_settings" \in DOMAIN Val(loaded).data
  /\ IsNone(Val(Val(loaded).call.result.job).base.data["test_data"])
  /\ ~IsNone(Val(Val(loaded).call.result.job).base.data["validation_data"])
  /\ ~IsNone(Val(Val(loaded).call.result.job).forecasting_settings)

SchemaFor(flag) ==
  IF flag THEN AutoMLForecastingNodeSchema ELSE AutoMLForecastingSchema

\* C18: each call uses exactly one schema, the pipeline-node schema when
\* inside_pipeline is true and the standalone schema when it is false or not
\* given, so the same flag selects the same schema in both directions, and
\* _load_from_dict does not forward inside_pipeline to the schema loader.
C18_SchemaSelection ==
  /\ last.op = "_to_dict" => Val(doc).document.schema = SchemaFor(FlagOfDump)
  /\ last.op = "_load_from_dict" =>
       /\ Val(loaded).call.schema = SchemaFor(FlagOfLoad)
       /\ Val(loaded).call.forwarded = DOMAIN Val(loaded).kwargs \ {"inside_pipeline"}
       /\ FlagOfLoad = FlagOfDump =>
            Val(loaded).call.schema = Val(doc).document.schema

C18_Witness ==
  /\ last.op = "_load_from_dict"
  /\ DOMAIN Val(loaded).kwargs = {"inside_pipeline", "unknown"}
  /\ FlagOfLoad
  /\ Val(doc).flag = Some(TRUE)
  /\ Val(loaded).call.schema = AutoMLForecastingNodeSchema
  /\ Val(loaded).call.forwarded = {"unknown"}
  /\ ~last.raised

\* C21: the training property is read-only in effect: an assignment to
\* job.training leaves the stored training settings as they were, a read
\* with nothing stored returns a default ForecastingTrainingSettings and
\* stores nothing, and the stack-ensemble override of set_training changes
\* only a record that is stored.
C21_TrainingReadOnly ==
  /\ last.op = "training.setter" => job = last.pre
  /\ last.op = "training.getter" =>
       /\ job = last.pre
       /\ IF IsNone(last.pre.training)
          THEN /\ IsNone(job.training)
               /\ last.targs \in {ForecastingTrainingSettings(d) : d \in OptBool}
          ELSE last.targs = Val(last.pre.training)
  /\ (last.op = "set_training" /\ IsNone(last.targs.enable_stack_ensemble)) =>
       IF IsNone(last.delegated.training)
       THEN IsNone(job.training)
       ELSE /\ ~IsNone(job.training)
            /\ Val(job.training) =
                 [Val(last.delegated.training) EXCEPT !.enable_stack_ensemble = Some(FALSE)]

C21_Witness ==
  /\ last.op = "training.setter"
  /\ steps = MaxSteps
  /\ last.targs.enable_stack_ensemble = Some(TRUE)
  /\ IsNone(last.pre.training)
  /\ IsNone(job.training)

====
